---- MODULE Spec2Model ----
(***************************************************************************)
(* Model of the Salesforce MCP server (src/server/index.js, REST variant)  *)
(* and of the command runner of the CLI variant (src/unnamed/part_000).    *)
(*                                                                         *)
(* State: the credential file, the OAuth login flows (listener, timer,     *)
(* promise, in-flight callback requests) and the tool calls in flight.     *)
(* One action is one run-to-completion step of the JavaScript event loop:  *)
(* the code between two awaits, or one event handler.                      *)
(***************************************************************************)
EXTENDS Integers, Sequences, FiniteSets, TLC

\* ---- bounds of the model ------------------------------------------------
MaxExchanges == 2     \* authorization codes the token endpoint exchanges for tokens
MaxRefreshes == 1     \* refresh requests the token endpoint answers with a new token
MaxCommandLen == 3    \* symbols in the command string of sf_run_command

Logins == {"login1", "login2"}   \* sf_org_login invocations
CbIds == {1, 2}                  \* callback requests in flight at the same time
Calls == {"call1"}               \* tool calls in flight, other than login and logout
CliCalls == {"cli1", "cli2"}     \* tool calls of the CLI variant in flight
NoLogin == "none"

\* ---- values ---------------------------------------------------------------
Aliases == {"prod", "dev"}
NoAlias == ""
DefaultLoginUrl == "https://login.salesforce.com"
SandboxLoginUrl == "https://test.salesforce.com"
InstanceUrls == {"https://na1"}
MovedInstanceUrls == {"https://na2"}
NoToken == 0
NoTokens == [access_token |-> NoToken, refresh_token |-> NoToken, instance_url |-> ""]
NoArgs == [alias |-> NoAlias, login_url |-> "", loginUrl |-> ""]

\* the identity document of the user who logs in; {} when the lookup fails
Identity == [username |-> "user@example.com", organization_id |-> "00D1", display_name |-> "User"]
NoIdentity == [username |-> "", organization_id |-> "", display_name |-> ""]

\* ---- the credential file as a JavaScript object ---------------------------
\* An object is an insertion-ordered list of entries; each entry carries its key.
HasKey(o, a) == \E i \in 1..Len(o) : o[i].alias = a

IndexOf(o, a) == CHOOSE i \in 1..Len(o) : o[i].alias = a

Get(o, a) == o[IndexOf(o, a)]

Keys(o) == {o[i].alias : i \in 1..Len(o)}

\* orgs[alias] = rec
SetKeyAppend(o, a, rec) == Append(o, rec)

SetKey(o, a, rec) == IF HasKey(o, a) THEN [o EXCEPT ![IndexOf(o, a)] = rec] ELSE Append(o, rec)

\* delete orgs[alias]
DeleteKeyAll(o, a) == << >>

DeleteKey(o, a) == SelectSeq(o, LAMBDA e : e.alias # a)

VARIABLES
  credsFile,    \* content of CREDS_FILE
  defaultOrg,   \* process.env.DEFAULT_ORG
  issued,       \* number of access tokens issued so far by the token endpoint
  exchanges,    \* number of them issued for an authorization code
  loginArgs,    \* per login: the alias and login_url arguments, and the loginUrl passed to oauthLogin
  settled,      \* per login: the settled flag of oauthLogin
  httpServer,   \* per login: state of the callback listener
  timer,        \* per login: state of the 2-minute timer
  promise,      \* per login: state of the promise oauthLogin returns
  loginResponse,\* per login: the CallTool response of sf_org_login
  notFound,     \* per login: a request to its listener was answered 404
  cbPc,         \* per callback request: position of the request handler
  cbLogin,      \* per callback request: the login whose listener received it
  cbTokens,     \* per callback request: the tokens its token exchange returned
  callPc,       \* per tool call: position of the handler
  callArgs,     \* per tool call: the tool and its org / alias argument
  org,          \* per tool call: the record getOrg returned (with _alias)
  http,         \* per tool call: the requests sent to the org, token and response status
  refreshes,    \* per tool call: number of requests sent to the token endpoint
  newToken,     \* per tool call: the access token refreshToken returned
  sfExit,       \* per tool call: how the external sf command ended (CLI variant)
  response,     \* per tool call: the CallTool response
  displayed,    \* per tool call: the org details in the text of an sf_org_display response
  logoutResponse, \* the response of the last sf_org_logout
  listResponse,   \* the response of the last sf_org_list
  cliPc,        \* per CLI call: position of the handler
  cliReq,       \* per CLI call: the tool and its arguments
  argv,         \* per CLI call: the argument list given to execFile
  sfRuns,       \* per CLI call: number of times the sf command was started
  cliExit,      \* per CLI call: exit, stdout and stderr of the sf command
  tmpFile,      \* per CLI call: the temporary file the handler created
  tmpDir,       \* the temporary directory: content of each file name
  cliResponse   \* per CLI call: the CallTool response

cbVars == <<cbPc, cbLogin, cbTokens>>

loginVars == <<loginArgs, settled, httpServer, timer, promise, loginResponse, notFound, cbVars>>

callVars == <<callPc, callArgs, org, http, refreshes, newToken, sfExit, response, displayed>>

cliVars == <<cliPc, cliReq, argv, sfRuns, cliExit, tmpFile, tmpDir, cliResponse>>

vars == <<credsFile, defaultOrg, issued, exchanges, loginVars, callVars, logoutResponse, listResponse, cliVars>>

\* ---- loadOrgs / saveOrgs ---------------------------------------------------
loadOrgsFailed == << >>

loadOrgs == credsFile

\* ---- the CallTool handler ------------------------------------------------------
\* A returned value is a plain response, a thrown error an error-flagged one.
NoResponse == [isError |-> FALSE, text |-> "none"]

Returned(text) == [isError |-> FALSE, text |-> text]

Thrown(text) == [isError |-> TRUE, text |-> text]

\* ---- the promise of oauthLogin and the sf_org_login handler awaiting it ------
\* resolve and reject act on a pending promise only; the handler then returns
\* the success JSON built from orgData, or its error reaches the CallTool handler.
LoginSuccess(orgData) ==
  [isError |-> FALSE, text |-> "success", alias |-> orgData.alias, username |-> orgData.username,
   instanceUrl |-> orgData.instanceUrl, orgId |-> orgData.orgId]

LoginError(reason) ==
  [isError |-> TRUE, text |-> reason, alias |-> NoAlias, username |-> "", instanceUrl |-> "", orgId |-> ""]

NoLoginResponse == [isError |-> FALSE, text |-> "none", alias |-> NoAlias, username |-> "", instanceUrl |-> "", orgId |-> ""]

SettleAlways(l, st, resp) ==
  /\ promise' = [promise EXCEPT ![l] = st]
  /\ loginResponse' = [loginResponse EXCEPT ![l] = resp]

Settle(l, st, resp) ==
  IF promise[l] = "pending"
    THEN /\ promise' = [promise EXCEPT ![l] = st]
         /\ loginResponse' = [loginResponse EXCEPT ![l] = resp]
    ELSE UNCHANGED <<promise, loginResponse>>

Reject(l, reason) == Settle(l, "rejected", LoginError(reason))

Resolve(l, orgData) == Settle(l, "resolved", LoginSuccess(orgData))

\* httpServer.close(): a listening server stops listening
Close(s) == IF s = "listening" THEN "closed" ELSE s

\* ---- oauthLogin -----------------------------------------------------------
OrgDataNoRefresh(a, u, tokens, identity) ==
  [alias |-> a,
   accessToken |-> tokens.access_token,
   refreshToken |-> NoToken,
   instanceUrl |-> tokens.instance_url,
   loginUrl |-> u,
   username |-> identity.username,
   orgId |-> identity.organization_id,
   displayName |-> identity.display_name,
   authenticatedAt |-> tokens.access_token]

OrgData(a, u, tokens, identity) ==
  [alias |-> a,
   accessToken |-> tokens.access_token,
   refreshToken |-> tokens.refresh_token,
   instanceUrl |-> tokens.instance_url,
   loginUrl |-> u,
   username |-> identity.username,
   orgId |-> identity.organization_id,
   displayName |-> identity.display_name,
   authenticatedAt |-> tokens.access_token]

\* The port taken for free whatever listens on it.
PortFreeAlways == TRUE

PortFree == \A m \in Logins : httpServer[m] # "listening"

EffectiveLoginUrl(u) == IF u = "" THEN DefaultLoginUrl ELSE u

\* sf_org_login: the handler calls oauthLogin(alias, login_url || default).
\* oauthLogin creates the listener, registers the error handler, calls listen
\* and arms the timer.  listen binds the port at once; when the port is taken
\* the 'error' event is delivered afterwards.
StartLogin(l, a, u) ==
  /\ promise[l] = "none"
  /\ loginArgs' = [loginArgs EXCEPT ![l] = [alias |-> a, login_url |-> u, loginUrl |-> EffectiveLoginUrl(u)]]
  /\ promise' = [promise EXCEPT ![l] = "pending"]
  /\ httpServer' = [httpServer EXCEPT ![l] = IF PortFree THEN "listening" ELSE "errorPending"]
  /\ timer' = [timer EXCEPT ![l] = "armed"]
  /\ UNCHANGED <<settled, loginResponse, cbVars, credsFile, issued, exchanges, defaultOrg, callVars, logoutResponse, listResponse, notFound, cliVars>>

\* httpServer.on("error", ...)
ListenError(l) ==
  /\ httpServer[l] = "errorPending"
  /\ httpServer' = [httpServer EXCEPT ![l] = "failed"]
  /\ IF ~settled[l]
       THEN /\ settled' = [settled EXCEPT ![l] = TRUE]
            /\ Reject(l, "listen_error")
       ELSE UNCHANGED <<settled, promise, loginResponse>>
  /\ UNCHANGED <<loginArgs, timer, cbVars, credsFile, issued, exchanges, defaultOrg, callVars, logoutResponse, listResponse, notFound, cliVars>>

\* setTimeout(..., 120000)
TimerFireUnlessRequest(l) ==
  /\ timer[l] = "armed"
  /\ timer' = [timer EXCEPT ![l] = "fired"]
  /\ IF ~settled[l] /\ \A k \in CbIds : cbLogin[k] # l
       THEN /\ settled' = [settled EXCEPT ![l] = TRUE]
            /\ httpServer' = [httpServer EXCEPT ![l] = Close(@)]
            /\ Reject(l, "timeout")
       ELSE UNCHANGED <<settled, httpServer, promise, loginResponse>>
  /\ UNCHANGED <<loginArgs, cbVars, credsFile, issued, exchanges, defaultOrg, callVars, logoutResponse, listResponse, notFound, cliVars>>

TimerFire(l) ==
  /\ timer[l] = "armed"
  /\ timer' = [timer EXCEPT ![l] = "fired"]
  /\ IF ~settled[l]
       THEN /\ settled' = [settled EXCEPT ![l] = TRUE]
            /\ httpServer' = [httpServer EXCEPT ![l] = Close(@)]
            /\ Reject(l, "timeout")
       ELSE UNCHANGED <<settled, httpServer, promise, loginResponse>>
  /\ UNCHANGED <<loginArgs, cbVars, credsFile, issued, exchanges, defaultOrg, callVars, logoutResponse, listResponse, notFound, cliVars>>

\* The request handler, from the arrival of a request at the listener of
\* login l to its first await.  A request can still arrive on a connection
\* that was open when the listener was closed.
CallbackKinds == {"other_path", "error", "no_code", "code"}

\* The same handler with a reply to another path taken for the end of the login.
CallbackArriveNotFoundSettles(k, l, kind) ==
  /\ cbPc[k] = "idle"
  /\ httpServer[l] \in {"listening", "closed"}
  /\ IF settled[l]
       THEN UNCHANGED <<settled, httpServer, promise, loginResponse, notFound, cbPc, cbLogin>>
       ELSE IF kind = "other_path"
       THEN /\ notFound' = [notFound EXCEPT ![l] = TRUE]
            /\ settled' = [settled EXCEPT ![l] = TRUE]
            /\ httpServer' = [httpServer EXCEPT ![l] = Close(@)]
            /\ Reject(l, kind)
            /\ UNCHANGED <<cbPc, cbLogin>>
       ELSE IF kind \in {"error", "no_code"}
       THEN /\ settled' = [settled EXCEPT ![l] = TRUE]
            /\ httpServer' = [httpServer EXCEPT ![l] = Close(@)]
            /\ Reject(l, kind)
            /\ UNCHANGED <<notFound, cbPc, cbLogin>>
       ELSE /\ cbPc' = [cbPc EXCEPT ![k] = "exchange"]
            /\ cbLogin' = [cbLogin EXCEPT ![k] = l]
            /\ UNCHANGED <<settled, httpServer, promise, loginResponse, notFound>>
  /\ UNCHANGED <<loginArgs, timer, cbTokens, credsFile, issued, exchanges, defaultOrg, callVars, logoutResponse, listResponse, cliVars>>

\* if (settled) return;  then a path other than /OauthRedirect is answered 404
\* and nothing else happens; then the error / no-code replies; then the exchange.
CallbackArrive(k, l, kind) ==
  /\ cbPc[k] = "idle"
  /\ httpServer[l] \in {"listening", "closed"}
  /\ IF settled[l]
       THEN UNCHANGED <<settled, httpServer, promise, loginResponse, notFound, cbPc, cbLogin>>
       ELSE IF kind = "other_path"
       THEN /\ notFound' = [notFound EXCEPT ![l] = TRUE]
            /\ UNCHANGED <<settled, httpServer, promise, loginResponse, cbPc, cbLogin>>
       ELSE IF kind \in {"error", "no_code"}
       THEN /\ settled' = [settled EXCEPT ![l] = TRUE]
            /\ httpServer' = [httpServer EXCEPT ![l] = Close(@)]
            /\ Reject(l, kind)
            /\ UNCHANGED <<notFound, cbPc, cbLogin>>
       ELSE /\ cbPc' = [cbPc EXCEPT ![k] = "exchange"]
            /\ cbLogin' = [cbLogin EXCEPT ![k] = l]
            /\ UNCHANGED <<settled, httpServer, promise, loginResponse, notFound>>
  /\ UNCHANGED <<loginArgs, timer, cbTokens, credsFile, issued, exchanges, defaultOrg, callVars, logoutResponse, listResponse, cliVars>>

\* The token endpoint refuses the authorization code (or the fetch fails):
\* the catch block of the request handler runs.
TokenExchangeFail(k) ==
  /\ cbPc[k] = "exchange"
  /\ LET l == cbLogin[k]
     IN /\ settled' = [settled EXCEPT ![l] = TRUE]
        /\ httpServer' = [httpServer EXCEPT ![l] = Close(@)]
        /\ Reject(l, "exchange_failed")
  /\ cbPc' = [cbPc EXCEPT ![k] = "idle"]
  /\ cbLogin' = [cbLogin EXCEPT ![k] = NoLogin]
  /\ UNCHANGED <<loginArgs, timer, cbTokens, credsFile, issued, exchanges, defaultOrg, callVars, logoutResponse, listResponse, notFound, cliVars>>

\* The token endpoint answers with tokens; the handler goes on to the identity lookup.
TokenExchangeOk(k, hasRefresh, inst) ==
  /\ cbPc[k] = "exchange"
  /\ exchanges < MaxExchanges
  /\ exchanges' = exchanges + 1
  /\ issued' = issued + 1
  /\ cbTokens' = [cbTokens EXCEPT ![k] =
        [access_token |-> issued + 1,
         refresh_token |-> IF hasRefresh THEN issued + 1 ELSE NoToken,
         instance_url |-> inst]]
  /\ cbPc' = [cbPc EXCEPT ![k] = "identity"]
  /\ UNCHANGED <<loginArgs, settled, httpServer, timer, promise, loginResponse, cbLogin, credsFile, defaultOrg, callVars, logoutResponse, listResponse, notFound, cliVars>>

\* The identity lookup returns (ok or not): the handler builds orgData, stores
\* it under the alias, marks the login settled, closes the listener and resolves.
IdentityDone(k, ok) ==
  /\ cbPc[k] = "identity"
  /\ LET l == cbLogin[k]
         identity == IF ok THEN Identity ELSE NoIdentity
         orgData == OrgData(loginArgs[l].alias, loginArgs[l].loginUrl, cbTokens[k], identity)
     IN /\ credsFile' = SetKey(loadOrgs, loginArgs[l].alias, orgData)
        /\ settled' = [settled EXCEPT ![l] = TRUE]
        /\ httpServer' = [httpServer EXCEPT ![l] = Close(@)]
        /\ Resolve(l, orgData)
  /\ cbPc' = [cbPc EXCEPT ![k] = "idle"]
  /\ cbLogin' = [cbLogin EXCEPT ![k] = NoLogin]
  /\ cbTokens' = [cbTokens EXCEPT ![k] = NoTokens]
  /\ UNCHANGED <<loginArgs, timer, issued, exchanges, defaultOrg, callVars, logoutResponse, listResponse, notFound, cliVars>>

\* The sf_org_login call is over: its response was sent, its timer has run and
\* none of its requests is still being handled.
LoginReturn(l) ==
  /\ promise[l] \in {"resolved", "rejected"}
  /\ timer[l] = "fired"
  /\ httpServer[l] \in {"closed", "failed"}
  /\ \A k \in CbIds : cbLogin[k] # l
  /\ loginArgs' = [loginArgs EXCEPT ![l] = NoArgs]
  /\ settled' = [settled EXCEPT ![l] = FALSE]
  /\ httpServer' = [httpServer EXCEPT ![l] = "none"]
  /\ timer' = [timer EXCEPT ![l] = "none"]
  /\ promise' = [promise EXCEPT ![l] = "none"]
  /\ loginResponse' = [loginResponse EXCEPT ![l] = NoLoginResponse]
  /\ notFound' = [notFound EXCEPT ![l] = FALSE]
  /\ UNCHANGED <<cbVars, credsFile, issued, exchanges, defaultOrg, callVars, logoutResponse, listResponse, cliVars>>

\* ---- getOrg -----------------------------------------------------------------
NoOrg == [_alias |-> NoAlias]

WithAlias(key, rec) ==
  [_alias |-> key, accessToken |-> rec.accessToken, refreshToken |-> rec.refreshToken,
   instanceUrl |-> rec.instanceUrl, loginUrl |-> rec.loginUrl,
   username |-> rec.username, orgId |-> rec.orgId, authenticatedAt |-> rec.authenticatedAt]

\* NoOrg stands for the thrown "No Salesforce orgs connected" error.
getOrg(alias) ==
  LET orgs == loadOrgs
      key == IF alias # NoAlias THEN alias ELSE defaultOrg
  IN IF key # NoAlias /\ HasKey(orgs, key) THEN WithAlias(key, Get(orgs, key))
     ELSE IF Len(orgs) = 0 THEN NoOrg
     ELSE WithAlias(orgs[1].alias, orgs[1])

\* ---- tool calls ---------------------------------------------------------------
ApiTools == {"sfApi", "sfRawApi", "sf_org_display"}
Statuses == {200, 204, 401, 500}
NoCallArgs == [tool |-> "none", org |-> NoAlias]
Ok(status) == status \in {200, 204}

\* A handler that calls sfApi or sfRawApi: getOrg, then the first request.
\* tool "sfApi" stands for the handlers that return sfApi's result, "sfRawApi"
\* for sf_rest_api and sf_apex_log get, "sf_org_display" for the handler
\* that wraps sfApi in try/catch.
CallStart(c, tool, alias) ==
  /\ callPc[c] = "idle"
  /\ callArgs' = [callArgs EXCEPT ![c] = [tool |-> tool, org |-> alias]]
  /\ LET o == getOrg(alias)
     IN IF o = NoOrg
          THEN /\ callPc' = [callPc EXCEPT ![c] = "done"]
               /\ response' = [response EXCEPT ![c] = Thrown("no_orgs")]
               /\ UNCHANGED <<org, http>>
          ELSE /\ callPc' = [callPc EXCEPT ![c] = "first"]
               /\ org' = [org EXCEPT ![c] = o]
               /\ http' = [http EXCEPT ![c] = <<[token |-> o.accessToken, status |-> 0]>>]
               /\ UNCHANGED response
  /\ UNCHANGED <<displayed, refreshes, newToken, sfExit, credsFile, issued, exchanges, defaultOrg, loginVars, logoutResponse, listResponse, cliVars>>

\* What the handler makes of the final response of sfApi / sfRawApi.
FinishAlwaysOk(tool, status) == Returned("result")

Finish(tool, status) ==
  IF tool = "sfApi"
    THEN IF status = 204 THEN Returned("success")
         ELSE IF Ok(status) THEN Returned("result") ELSE Thrown("http_error")
  ELSE IF tool = "sfRawApi" THEN Returned("body")
  ELSE Returned("display")

\* The text of an sf_org_display response: the details of the org that getOrg
\* returned and, when the versions request gave a list, its last version
\* ("" for a field that JSON.stringify leaves out).
NoDisplay == [alias |-> NoAlias, username |-> "", instanceUrl |-> "", orgId |-> "", authenticatedAt |-> NoToken, latestApiVersion |-> ""]

LatestVersion(status) == IF status = 200 THEN "60.0" ELSE ""

DisplayText(o, version) ==
  [alias |-> o._alias, username |-> o.username, instanceUrl |-> o.instanceUrl, orgId |-> o.orgId,
   authenticatedAt |-> o.authenticatedAt, latestApiVersion |-> version]

Display(c, version) ==
  IF callArgs[c].tool = "sf_org_display"
    THEN displayed' = [displayed EXCEPT ![c] = DisplayText(org[c], version)]
    ELSE UNCHANGED displayed

\* What the handler makes of the error thrown by refreshToken.
RefreshFailedUnflagged(tool) == Returned("result")

RefreshFailed(tool) ==
  IF tool = "sf_org_display" THEN Returned("display") ELSE Thrown("session_expired")

\* if (res.status === 401 && org.refreshToken)
NeedsRefreshAny(c, status) == status = 401

NeedsRefresh(c, status) == status = 401 /\ org[c].refreshToken # NoToken

SetStatus(h, status) == [h EXCEPT ![Len(h)].status = status]

\* The response to the first request arrives.
FirstResponse(c, status) ==
  /\ callPc[c] = "first"
  /\ http' = [http EXCEPT ![c] = SetStatus(@, status)]
  /\ IF NeedsRefresh(c, status)
       THEN /\ callPc' = [callPc EXCEPT ![c] = "refresh"]
            /\ refreshes' = [refreshes EXCEPT ![c] = @ + 1]
            /\ UNCHANGED <<response, displayed>>
       ELSE /\ callPc' = [callPc EXCEPT ![c] = "done"]
            /\ response' = [response EXCEPT ![c] = Finish(callArgs[c].tool, status)]
            /\ Display(c, LatestVersion(status))
            /\ UNCHANGED refreshes
  /\ UNCHANGED <<callArgs, org, newToken, sfExit, credsFile, issued, exchanges, defaultOrg, loginVars, logoutResponse, listResponse, cliVars>>

\* refreshToken: the token endpoint refuses the refresh token.
RefreshFail(c) ==
  /\ callPc[c] = "refresh"
  /\ callPc' = [callPc EXCEPT ![c] = "done"]
  /\ response' = [response EXCEPT ![c] = RefreshFailed(callArgs[c].tool)]
  /\ Display(c, "")
  /\ UNCHANGED <<callArgs, org, http, refreshes, newToken, sfExit, credsFile, issued, exchanges, defaultOrg, loginVars, logoutResponse, listResponse, cliVars>>

\* refreshToken, after the token endpoint answered: update the record of
\* org._alias if there is one.  inst is data.instance_url, "" when absent.
RefreshUpdateCreate(orgs, a, tok, inst) ==
  IF HasKey(orgs, a)
    THEN LET rec == Get(orgs, a)
             upd == [rec EXCEPT !.accessToken = tok,
                                !.instanceUrl = IF inst # "" THEN inst ELSE @]
         IN SetKey(orgs, a, upd)
    ELSE Append(orgs, [alias |-> a, accessToken |-> tok, refreshToken |-> NoToken,
                       instanceUrl |-> inst, loginUrl |-> "", username |-> "",
                       orgId |-> "", displayName |-> "", authenticatedAt |-> NoToken])

RefreshUpdate(orgs, a, tok, inst) ==
  IF HasKey(orgs, a)
    THEN LET rec == Get(orgs, a)
             upd == [rec EXCEPT !.accessToken = tok,
                                !.instanceUrl = IF inst # "" THEN inst ELSE @]
         IN SetKey(orgs, a, upd)
    ELSE orgs

\* res = await doFetch(newToken)
RetryTokenStale(o, tok) == o.accessToken

RetryToken(o, tok) == tok

\* The token endpoint answers; the record is updated and the request is sent
\* again with the new token.
RefreshOk(c, inst) ==
  /\ callPc[c] = "refresh"
  /\ issued - exchanges < MaxRefreshes
  /\ issued' = issued + 1
  /\ credsFile' = RefreshUpdate(loadOrgs, org[c]._alias, issued + 1, inst)
  /\ newToken' = [newToken EXCEPT ![c] = issued + 1]
  /\ http' = [http EXCEPT ![c] = Append(@, [token |-> RetryToken(org[c], issued + 1), status |-> 0])]
  /\ callPc' = [callPc EXCEPT ![c] = "second"]
  /\ UNCHANGED <<displayed, callArgs, org, refreshes, sfExit, response, exchanges, defaultOrg, loginVars, logoutResponse, listResponse, cliVars>>

\* The response to the second request arrives; it is not retried.
SecondResponse(c, status) ==
  /\ callPc[c] = "second"
  /\ http' = [http EXCEPT ![c] = SetStatus(@, status)]
  /\ callPc' = [callPc EXCEPT ![c] = "done"]
  /\ response' = [response EXCEPT ![c] = Finish(callArgs[c].tool, status)]
  /\ Display(c, LatestVersion(status))
  /\ UNCHANGED <<callArgs, org, refreshes, newToken, sfExit, credsFile, issued, exchanges, defaultOrg, loginVars, logoutResponse, listResponse, cliVars>>

\* ---- runSf (CLI variant) ------------------------------------------------------
\* exitOk: the command exited with success; out, err: stdout / stderr non-empty.
NoExit == [exit |-> "none", stdout |-> FALSE, stderr |-> FALSE]

runSfThrowsOnFailure(exitOk, out, err) ==
  IF exitOk THEN Returned(IF out THEN "stdout" ELSE "stderr") ELSE Thrown("sf_failed")

runSf(exitOk, out, err) ==
  IF exitOk THEN Returned(IF out THEN "stdout" ELSE "stderr")
  ELSE IF out THEN Returned("stdout")
  ELSE IF err THEN Returned("stderr")
  ELSE Thrown("sf_failed")

\* A tool call of the CLI variant: every handler returns runSf(args).
CliCall(c, exitOk, out, err) ==
  /\ callPc[c] = "idle"
  /\ callArgs' = [callArgs EXCEPT ![c] = [tool |-> "runSf", org |-> NoAlias]]
  /\ sfExit' = [sfExit EXCEPT ![c] = [exit |-> IF exitOk THEN "ok" ELSE "failed", stdout |-> out, stderr |-> err]]
  /\ response' = [response EXCEPT ![c] = runSf(exitOk, out, err)]
  /\ callPc' = [callPc EXCEPT ![c] = "done"]
  /\ UNCHANGED <<displayed, org, http, refreshes, newToken, credsFile, issued, exchanges, defaultOrg, loginVars, logoutResponse, listResponse, cliVars>>

\* ---- the handlers of the CLI variant -------------------------------------------
\* A string that the code takes apart is a sequence of symbols; a symbol is a
\* white-space character or a piece of text without white space.
Whitespace == {" ", "\t"}
Symbols == Whitespace \cup {"x", "--json"}
Commands == UNION {[1..n -> Symbols] : n \in 0..MaxCommandLen}

\* An argument that the code passes on as a whole is a word of one symbol.
Word(text) == <<text>>
JsonFlag == Word("--json")

\* command.split(/\s+/): the pieces between the runs of white space; a run at
\* the start or the end of the string gives an empty piece, the empty string
\* gives one empty piece.
RECURSIVE SplitWs(_, _, _)
SplitWs(cmd, acc, cur) ==
  IF cmd = << >> THEN Append(acc, cur)
  ELSE IF Head(cmd) \in Whitespace
    THEN IF Len(cmd) > 1 /\ cmd[2] \in Whitespace
           THEN SplitWs(Tail(cmd), acc, cur)
           ELSE SplitWs(Tail(cmd), Append(acc, cur), << >>)
    ELSE SplitWs(Tail(cmd), acc, Append(cur, Head(cmd)))

Split(cmd) == SplitWs(cmd, << >>, << >>)

Includes(args, w) == \E i \in 1..Len(args) : args[i] = w

\* if (!args.includes("--json")) args.push("--json")
WithJsonAlways(args) == Append(args, JsonFlag)

WithJson(args) == IF Includes(args, JsonFlag) THEN args ELSE Append(args, JsonFlag)

\* resolveOrg: orgAlias || DEFAULT_ORG || undefined ("" stands for undefined)
resolveOrgDefaultFirst(orgAlias) == IF defaultOrg # NoAlias THEN defaultOrg ELSE orgAlias

resolveOrg(orgAlias) == IF orgAlias # NoAlias THEN orgAlias ELSE defaultOrg

orgArgs(orgAlias) ==
  LET o == resolveOrg(orgAlias)
  IN IF o # NoAlias THEN <<Word("--target-org"), Word(o)>> ELSE << >>

\* Date.now() and the temporary file named after it
Times == {1, 2}
NoTmp == ""
NoFile == "absent"
TmpName(now) == IF now = 1 THEN "sf-apex-1.apex" ELSE "sf-apex-2.apex"
TmpNames == {TmpName(t) : t \in Times}

CliTools == {"sf_org_display", "sf_apex_run", "sf_run_command"}
NoCliReq == [tool |-> "none", org |-> NoAlias, code |-> "", file |-> "", command |-> << >>]
NoCliExit == [exit |-> "none", stdout |-> "", stderr |-> ""]

\* sf_apex_run: if (code && !file)
UsesTmp(req) == req.code # "" /\ req.file = ""

ApexArgs(req) ==
  <<Word("apex"), Word("run")>> \o orgArgs(req.org) \o <<JsonFlag>>
    \o (IF req.file # "" THEN <<Word("-f"), Word(req.file)>> ELSE << >>)

\* The handler up to the await of execFile: it builds the argument list,
\* sf_apex_run with inline code and no file writes the temporary file first.
CliStart(c, req, now) ==
  /\ cliPc[c] = "idle"
  /\ req.tool \in CliTools
  /\ cliReq' = [cliReq EXCEPT ![c] = req]
  /\ IF req.tool = "sf_apex_run" /\ UsesTmp(req)
       THEN /\ tmpFile' = [tmpFile EXCEPT ![c] = TmpName(now)]
            /\ tmpDir' = [tmpDir EXCEPT ![TmpName(now)] = req.code]
            /\ argv' = [argv EXCEPT ![c] = ApexArgs(req) \o <<Word("-f"), Word(TmpName(now))>>]
       ELSE /\ argv' = [argv EXCEPT ![c] =
                  IF req.tool = "sf_apex_run" THEN ApexArgs(req)
                  ELSE IF req.tool = "sf_run_command" THEN WithJson(Split(req.command))
                  ELSE <<Word("org"), Word("display")>> \o orgArgs(req.org) \o <<JsonFlag>>]
            /\ UNCHANGED <<tmpFile, tmpDir>>
  /\ sfRuns' = [sfRuns EXCEPT ![c] = @ + 1]
  /\ cliPc' = [cliPc EXCEPT ![c] = "exec"]
  /\ UNCHANGED <<cliExit, cliResponse, credsFile, defaultOrg, issued, exchanges, loginVars, callVars, logoutResponse, listResponse>>

\* What runSf makes of the exit of the command: its stdout or stderr as text.
SfResult(exitOk, out, err) ==
  LET r == runSf(exitOk, out # "", err # "")
  IN IF r.isError THEN r
     ELSE IF r.text = "stdout" THEN Returned(out) ELSE Returned(err)

\* unlinkSync(tmpFile), in the try block and in the catch block
CleanUpOnSuccess(dir, t, threw) == IF threw THEN dir ELSE [dir EXCEPT ![t] = NoFile]

CleanUp(dir, t, threw) == [dir EXCEPT ![t] = NoFile]

\* The sf command ends: runSf returns or throws; sf_apex_run removes its
\* temporary file (unlinkSync throws when the file is gone) and the handler
\* returns.
CliExit(c, exitOk, out, err) ==
  /\ cliPc[c] = "exec"
  /\ cliExit' = [cliExit EXCEPT ![c] = [exit |-> IF exitOk THEN "ok" ELSE "failed", stdout |-> out, stderr |-> err]]
  /\ LET r == SfResult(exitOk, out, err)
         t == tmpFile[c]
     IN IF t = NoTmp
          THEN /\ cliResponse' = [cliResponse EXCEPT ![c] = r]
               /\ UNCHANGED tmpDir
          ELSE IF tmpDir[t] # NoFile
          THEN /\ cliResponse' = [cliResponse EXCEPT ![c] = r]
               /\ tmpDir' = CleanUp(tmpDir, t, r.isError)
          ELSE /\ cliResponse' = [cliResponse EXCEPT ![c] = Thrown("ENOENT")]
               /\ UNCHANGED tmpDir
  /\ cliPc' = [cliPc EXCEPT ![c] = "done"]
  /\ UNCHANGED <<cliReq, argv, sfRuns, tmpFile, credsFile, defaultOrg, issued, exchanges, loginVars, callVars, logoutResponse, listResponse>>

\* The response has been sent.
CliReturn(c) ==
  /\ cliPc[c] = "done"
  /\ cliPc' = [cliPc EXCEPT ![c] = "idle"]
  /\ cliReq' = [cliReq EXCEPT ![c] = NoCliReq]
  /\ argv' = [argv EXCEPT ![c] = << >>]
  /\ sfRuns' = [sfRuns EXCEPT ![c] = 0]
  /\ cliExit' = [cliExit EXCEPT ![c] = NoCliExit]
  /\ tmpFile' = [tmpFile EXCEPT ![c] = NoTmp]
  /\ cliResponse' = [cliResponse EXCEPT ![c] = NoResponse]
  /\ UNCHANGED <<tmpDir, credsFile, defaultOrg, issued, exchanges, loginVars, callVars, logoutResponse, listResponse>>

\* ---- TOOL_HANDLERS[name] ---------------------------------------------------------
\* The own keys of the handler table, named after the helper the handler returns.
TOOL_HANDLERS == ApiTools \cup {"runSf", "sf_org_login", "sf_org_logout", "sf_org_list"}

\* Request names that are no key of the table: an unused name, and two names
\* every object literal inherits from Object.prototype.
MissingNames == {"sf_unknown", "toString", "__proto__"}

\* TOOL_HANDLERS[name] for such a name: undefined, an inherited function, or
\* the prototype object itself.
Lookup(name) ==
  IF name = "toString" THEN "inherited_function"
  ELSE IF name = "__proto__" THEN "inherited_object"
  ELSE "undefined"

UnknownToolText(name) ==
  IF name = "sf_unknown" THEN "Unknown tool: sf_unknown"
  ELSE IF name = "toString" THEN "Unknown tool: toString"
  ELSE "Unknown tool: __proto__"

UnknownTool(name) == [isError |-> TRUE, text |-> UnknownToolText(name)]

\* if (!handler) return the unknown-tool response; otherwise handler(args) is
\* called: Object.prototype.toString returns "[object Undefined]", calling the
\* prototype object throws a TypeError inside the try block.
Dispatch(name) ==
  IF Lookup(name) = "undefined" THEN UnknownTool(name)
  ELSE IF Lookup(name) = "inherited_function" THEN Returned("[object Undefined]")
  ELSE Thrown("handler is not a function")

\* A CallTool request whose name is no key of the handler table.
CallMissing(c, name) ==
  /\ callPc[c] = "idle"
  /\ name \notin TOOL_HANDLERS
  /\ callArgs' = [callArgs EXCEPT ![c] = [tool |-> name, org |-> NoAlias]]
  /\ response' = [response EXCEPT ![c] = Dispatch(name)]
  /\ callPc' = [callPc EXCEPT ![c] = "done"]
  /\ UNCHANGED <<displayed, org, http, refreshes, newToken, sfExit, credsFile, issued, exchanges, defaultOrg, loginVars, logoutResponse, listResponse, cliVars>>

\* ---- sf_org_logout --------------------------------------------------------------
NoLogout == [alias |-> NoAlias, text |-> "none"]

\* The text of the sf_org_logout response.
LogoutText(orgs, alias) ==
  [alias |-> alias, text |-> IF HasKey(orgs, alias) THEN "removed" ELSE "not_found"]

Logout(alias) ==
  LET orgs == loadOrgs
  IN /\ IF ~HasKey(orgs, alias)
          THEN /\ logoutResponse' = LogoutText(orgs, alias)
               /\ UNCHANGED credsFile
          ELSE /\ credsFile' = DeleteKey(orgs, alias)
               /\ logoutResponse' = LogoutText(orgs, alias)
     /\ UNCHANGED <<issued, exchanges, defaultOrg, loginVars, callVars, listResponse, cliVars>>

LogoutReturn ==
  /\ logoutResponse # NoLogout
  /\ logoutResponse' = NoLogout
  /\ UNCHANGED <<credsFile, issued, exchanges, defaultOrg, loginVars, callVars, listResponse, cliVars>>

\* ---- sf_org_list ---------------------------------------------------------------
NoOrgsMessage == "No orgs connected. Use sf_org_login to authenticate a Salesforce org."

NoList == [isError |-> FALSE, json |-> "none", message |-> "", list |-> << >>]

\* The entries with the access token of each record added.
OrgEntriesWithTokens(orgs) ==
  [i \in 1..Len(orgs) |->
     [alias |-> orgs[i].alias, username |-> orgs[i].username, instanceUrl |-> orgs[i].instanceUrl,
      orgId |-> orgs[i].orgId, authenticatedAt |-> orgs[i].authenticatedAt,
      accessToken |-> orgs[i].accessToken]]

\* Object.entries(orgs).map(([alias, o]) => ({alias, username, instanceUrl, orgId, authenticatedAt}))
OrgEntries(orgs) ==
  [i \in 1..Len(orgs) |->
     [alias |-> orgs[i].alias, username |-> orgs[i].username, instanceUrl |-> orgs[i].instanceUrl,
      orgId |-> orgs[i].orgId, authenticatedAt |-> orgs[i].authenticatedAt]]

\* The text of the response: the JSON of the list whatever its length.
OrgListTextAlwaysList(list) ==
  [isError |-> FALSE, json |-> "array", message |-> "", list |-> list]

\* The text of the response: the JSON of an object with the message for an
\* empty list, the JSON of the list otherwise.
OrgListText(list) ==
  IF Len(list) = 0
    THEN [isError |-> FALSE, json |-> "object", message |-> NoOrgsMessage, list |-> << >>]
    ELSE [isError |-> FALSE, json |-> "array", message |-> "", list |-> list]

\* sf_org_list has no await: it reads the file and returns.
OrgList ==
  /\ listResponse = NoList
  /\ listResponse' = OrgListText(OrgEntries(loadOrgs))
  /\ UNCHANGED <<credsFile, issued, exchanges, defaultOrg, loginVars, callVars, logoutResponse, cliVars>>

ListReturn ==
  /\ listResponse # NoList
  /\ listResponse' = NoList
  /\ UNCHANGED <<credsFile, issued, exchanges, defaultOrg, loginVars, callVars, logoutResponse, cliVars>>

\* The response has been sent; the slot is free for the next tool call.
CallReturn(c) ==
  /\ callPc[c] = "done"
  /\ callPc' = [callPc EXCEPT ![c] = "idle"]
  /\ callArgs' = [callArgs EXCEPT ![c] = NoCallArgs]
  /\ org' = [org EXCEPT ![c] = NoOrg]
  /\ http' = [http EXCEPT ![c] = << >>]
  /\ refreshes' = [refreshes EXCEPT ![c] = 0]
  /\ newToken' = [newToken EXCEPT ![c] = NoToken]
  /\ sfExit' = [sfExit EXCEPT ![c] = NoExit]
  /\ response' = [response EXCEPT ![c] = NoResponse]
  /\ displayed' = [displayed EXCEPT ![c] = NoDisplay]
  /\ UNCHANGED <<credsFile, issued, exchanges, defaultOrg, loginVars, logoutResponse, listResponse, cliVars>>

\* ---- the system -------------------------------------------------------------------
Init ==
  /\ credsFile = << >>
  /\ defaultOrg \in {NoAlias, "prod"}
  /\ issued = 0
  /\ exchanges = 0
  /\ loginArgs = [l \in Logins |-> NoArgs]
  /\ settled = [l \in Logins |-> FALSE]
  /\ httpServer = [l \in Logins |-> "none"]
  /\ timer = [l \in Logins |-> "none"]
  /\ promise = [l \in Logins |-> "none"]
  /\ loginResponse = [l \in Logins |-> NoLoginResponse]
  /\ listResponse = NoList
  /\ notFound = [l \in Logins |-> FALSE]
  /\ cbPc = [k \in CbIds |-> "idle"]
  /\ cbLogin = [k \in CbIds |-> NoLogin]
  /\ cbTokens = [k \in CbIds |-> NoTokens]
  /\ callPc = [c \in Calls |-> "idle"]
  /\ callArgs = [c \in Calls |-> NoCallArgs]
  /\ org = [c \in Calls |-> NoOrg]
  /\ http = [c \in Calls |-> << >>]
  /\ refreshes = [c \in Calls |-> 0]
  /\ newToken = [c \in Calls |-> NoToken]
  /\ sfExit = [c \in Calls |-> NoExit]
  /\ response = [c \in Calls |-> NoResponse]
  /\ displayed = [c \in Calls |-> NoDisplay]
  /\ logoutResponse = NoLogout
  /\ cliPc = [c \in CliCalls |-> "idle"]
  /\ cliReq = [c \in CliCalls |-> NoCliReq]
  /\ argv = [c \in CliCalls |-> << >>]
  /\ sfRuns = [c \in CliCalls |-> 0]
  /\ cliExit = [c \in CliCalls |-> NoCliExit]
  /\ tmpFile = [c \in CliCalls |-> NoTmp]
  /\ tmpDir = [f \in TmpNames |-> NoFile]
  /\ cliResponse = [c \in CliCalls |-> NoResponse]

\* Logins and callback requests are interchangeable: the second login slot is
\* used only while the first is in use, a request takes the first free slot.
InOrder(l) == l = "login2" => promise["login1"] # "none"

\* args.login_url: the first login gives none, the second the sandbox URL.
LoginUrlArg(l) == IF l = "login1" THEN "" ELSE SandboxLoginUrl

FirstFree(k) == \A j \in 1..(k - 1) : cbPc[j] # "idle"

\* The response of a finished handler is sent before any other event is handled.
Quiet == logoutResponse = NoLogout /\ listResponse = NoList /\ \A c \in Calls : callPc[c] # "done"

\* A tool call waits for the answer of the org to a request it has sent.
CallLocal == \E c \in Calls : callPc[c] \in {"first", "second"}

\* A login is between its start and the identity lookup of its request, or
\* between its outcome and the end of the sf_org_login call.
LoginLocal == \E l \in Logins : promise[l] # "none" /\ \A k \in CbIds : cbLogin[k] = l => cbPc[k] # "identity"

\* No handler has a step pending that is local to it.
Stable == Quiet /\ ~CallLocal /\ ~LoginLocal

\* Tool calls, one login at a time and logouts.  The steps of a handler that
\* read or write neither the credential file nor the state of another handler
\* (the arrival of a request or of a response, the timer, the return) commute
\* with the steps of the other handlers; they run before any other step, so
\* the handlers interleave where they read or write the credential file: at
\* getOrg, at the token refresh, at the save of a login and at a logout.  The
\* login succeeds and its timer runs after its outcome; a login is started
\* while the token endpoint still exchanges a code.
Next ==
  \/ \E a \in Aliases : Stable /\ exchanges < MaxExchanges /\ StartLogin("login1", a, LoginUrlArg("login1"))
  \/ Quiet /\ settled["login1"] /\ TimerFire("login1")
  \/ Quiet /\ CallbackArrive(1, "login1", "code")
  \/ \E hasRefresh \in BOOLEAN, inst \in InstanceUrls : Quiet /\ TokenExchangeOk(1, hasRefresh, inst)
  \/ Stable /\ IdentityDone(1, TRUE)
  \/ Quiet /\ LoginReturn("login1")
  \/ \E c \in Calls, tool \in ApiTools, alias \in {NoAlias} \cup Aliases : Stable /\ CallStart(c, tool, alias)
  \/ \E c \in Calls, status \in Statuses : Quiet /\ FirstResponse(c, status)
  \/ \E c \in Calls : Stable /\ RefreshFail(c)
  \/ \E c \in Calls, inst \in {""} \cup MovedInstanceUrls : Stable /\ RefreshOk(c, inst)
  \/ \E c \in Calls, status \in Statuses : Quiet /\ SecondResponse(c, status)
  \/ \E c \in Calls, exitOk, out, err \in BOOLEAN : Stable /\ CliCall(c, exitOk, out, err)
  \/ \E c \in Calls, name \in MissingNames : Stable /\ CallMissing(c, name)
  \/ \E alias \in Aliases : Stable /\ Logout(alias)
  \/ LogoutReturn
  \/ Stable /\ OrgList
  \/ ListReturn
  \/ \E c \in Calls : CallReturn(c)

Spec == Init /\ [][Next]_vars

\* listen() binds the port before it returns and hands a failure to the
\* 'error' handler on the next tick, before the event loop takes up a timer,
\* a request or a response.
NoErrorDue == \A l \in Logins : httpServer[l] # "errorPending"

\* Concurrent logins and concurrent callback requests, without other tool calls.
NextLogin ==
  \/ \E l \in Logins, a \in Aliases : NoErrorDue /\ InOrder(l) /\ StartLogin(l, a, LoginUrlArg(l))
  \/ \E l \in Logins : ListenError(l)
  \/ \E l \in Logins : NoErrorDue /\ TimerFire(l)
  \/ \E k \in CbIds, l \in Logins, kind \in CallbackKinds \ {"other_path"} : NoErrorDue /\ FirstFree(k) /\ CallbackArrive(k, l, kind)
  \/ \E k \in CbIds : NoErrorDue /\ TokenExchangeFail(k)
  \/ \E k \in CbIds, hasRefresh \in BOOLEAN, inst \in InstanceUrls : NoErrorDue /\ TokenExchangeOk(k, hasRefresh, inst)
  \/ \E k \in CbIds, ok \in BOOLEAN : NoErrorDue /\ IdentityDone(k, ok)

SpecLogin == Init /\ [][NextLogin]_vars

\* The event loop runs a timer that is due and a pending 'error' event.
FairSpecLogin == SpecLogin /\ \A l \in Logins : WF_vars(NoErrorDue /\ TimerFire(l)) /\ WF_vars(ListenError(l))

\* The store and the tools that only read or write it: one login after another
\* (with or without the identity of the user), logouts and listings.
NextStore ==
  \/ \E a \in Aliases, u \in {"", SandboxLoginUrl} : Stable /\ StartLogin("login1", a, u)
  \/ Quiet /\ settled["login1"] /\ TimerFire("login1")
  \/ Quiet /\ CallbackArrive(1, "login1", "code")
  \/ \E hasRefresh \in BOOLEAN, inst \in InstanceUrls : Quiet /\ TokenExchangeOk(1, hasRefresh, inst)
  \/ \E ok \in BOOLEAN : Quiet /\ IdentityDone(1, ok)
  \/ Quiet /\ LoginReturn("login1")
  \/ \E alias \in Aliases : Quiet /\ Logout(alias)
  \/ LogoutReturn
  \/ Quiet /\ OrgList
  \/ ListReturn

SpecStore == Init /\ [][NextStore]_vars

\* One login after another, with every kind of request to its listener, also
\* to paths other than /OauthRedirect, and up to two requests being handled.
NextCallback ==
  \/ \E a \in Aliases : StartLogin("login1", a, LoginUrlArg("login1"))
  \/ TimerFire("login1")
  \/ \E k \in CbIds, kind \in CallbackKinds : FirstFree(k) /\ CallbackArrive(k, "login1", kind)
  \/ \E k \in CbIds : TokenExchangeFail(k)
  \/ \E k \in CbIds, hasRefresh \in BOOLEAN, inst \in InstanceUrls : TokenExchangeOk(k, hasRefresh, inst)
  \/ \E k \in CbIds, ok \in BOOLEAN : IdentityDone(k, ok)
  \/ LoginReturn("login1")

SpecCallback == Init /\ [][NextCallback]_vars

\* The CLI variant: two tool calls in flight.  A finished call returns before
\* any other step; the second call in flight is an sf_apex_run, the handler
\* that keeps state outside its call.
QuietCli == \A c \in CliCalls : cliPc[c] # "done"

CliOrgs == {NoAlias, "dev"}
CliCodes == {"", "x"}
CliFiles == {"", "f.apex"}
CliOutputs == {"", "out"}
CliErrors == {"", "err"}

NextCli ==
  \/ \E orgArg \in CliOrgs : QuietCli /\ CliStart("cli1", [NoCliReq EXCEPT !.tool = "sf_org_display", !.org = orgArg], 1)
  \/ \E command \in Commands : QuietCli /\ CliStart("cli1", [NoCliReq EXCEPT !.tool = "sf_run_command", !.command = command], 1)
  \/ \E c \in CliCalls, orgArg \in CliOrgs, code \in CliCodes, file \in CliFiles, now \in Times :
        QuietCli /\ CliStart(c, [NoCliReq EXCEPT !.tool = "sf_apex_run", !.org = orgArg, !.code = code, !.file = file], now)
  \/ \E c \in CliCalls, exitOk \in BOOLEAN, out \in CliOutputs, err \in CliErrors : QuietCli /\ CliExit(c, exitOk, out, err)
  \/ \E c \in CliCalls : CliReturn(c)

SpecCli == Init /\ [][NextCli]_vars

\* ---- properties -----------------------------------------------------------------------
Done(l) == promise[l] \in {"resolved", "rejected"}

C2_EventuallySettles ==
  /\ \A l \in Logins : (promise[l] = "pending") ~> Done(l)
  /\ [](\A l \in Logins : loginResponse[l].text = "timeout" => httpServer[l] # "listening")

\* The timer rejected a login whose listener was open.
C2_Witness ==
  \E l \in Logins : loginResponse[l].text = "timeout" /\ httpServer[l] = "closed"

\* C3: a tool call sends at most two requests to the org and at most one to the
\* token endpoint; it refreshes only after a 401 on the first request and with
\* a refresh token in the record; the second request carries the token the
\* refresh returned.
C3_SingleRefreshAndRetry ==
  \A c \in Calls :
    /\ refreshes[c] <= 1
    /\ Len(http[c]) <= 2
    /\ refreshes[c] = 1 => http[c][1].status = 401 /\ org[c].refreshToken # NoToken
    /\ Len(http[c]) = 2 =>
         /\ refreshes[c] = 1
         /\ newToken[c] # NoToken
         /\ http[c][2].token = newToken[c]
         /\ http[c][1].token = org[c].accessToken

\* The retried request was answered 401 as well and the call ended.
C3_Witness ==
  \E c \in Calls : callPc[c] = "done" /\ Len(http[c]) = 2 /\ http[c][2].status = 401


\* The HTTP call of a tool call ended with a non-success status, or its sf
\* command exited with failure.
CallFailed(c) ==
  \/ sfExit[c].exit = "failed"
  \/ Len(http[c]) > 0 /\ ~Ok(http[c][Len(http[c])].status)

\* The token refresh of a tool call was refused.
RefreshRefused(c) == refreshes[c] = 1 /\ Len(http[c]) = 1

\* C4 as stated: every tool call whose HTTP call or sf command failed ends with
\* an error-flagged response.
C4_EveryFailureFlagged ==
  \A c \in Calls : callPc[c] = "done" /\ CallFailed(c) => response[c].isError

\* C4 as amended: a failed call is error-flagged when the tool returns the
\* result of sfApi, when the token refresh of a tool other than sf_org_display
\* is refused, and when the failed sf command wrote neither stdout nor stderr;
\* a tool on sfRawApi returns the body of a non-success response unflagged,
\* sf_org_display returns the stored details unflagged, and runSf returns the
\* stdout or stderr of a failed command unflagged.
C4_FailureFlaggedWhereThrown ==
  \A c \in Calls : callPc[c] = "done" /\ CallFailed(c) =>
    LET tool == callArgs[c].tool
    IN /\ tool = "sfApi" => response[c].isError
       /\ tool = "sfRawApi" => (response[c].isError <=> RefreshRefused(c))
       /\ tool = "sf_org_display" => ~response[c].isError
       /\ tool = "runSf" => (response[c].isError <=> ~sfExit[c].stdout /\ ~sfExit[c].stderr)

\* A tool on sfApi got a non-success status on the retried request.
C4_Witness ==
  \E c \in Calls :
    /\ callPc[c] = "done" /\ callArgs[c].tool = "sfApi"
    /\ Len(http[c]) = 2 /\ http[c][2].status = 500
    /\ response[c].isError

\* C5 as stated: a credential record is written only by a login that succeeds;
\* while no login has been resolved the credential file is as it was.
C5_WrittenOnlyBySuccess ==
  (\A l \in Logins : promise[l] # "resolved") => credsFile = << >>

\* ---- steps that write the credential file -------------------------------------------
Absent == [alias |-> NoAlias]

Entry(o, b) == IF HasKey(o, b) THEN Get(o, b) ELSE Absent

OthersKept(a) == \A b \in Aliases \ {a} : Entry(credsFile', b) = Entry(credsFile, b)

\* request k finishes the identity lookup and stores orgData
LoginSaveStep(k) == cbPc[k] = "identity" /\ cbPc'[k] = "idle"

\* tool call c processes the answer of the token endpoint
RefreshStep(c) == callPc[c] = "refresh" /\ callPc'[c] = "second"

LogoutStep == logoutResponse = NoLogout /\ logoutResponse' # NoLogout

C7_RefreshFrame ==
  [][\A c \in Calls : RefreshStep(c) =>
       LET a == org[c]._alias
       IN IF HasKey(credsFile, a)
            THEN /\ Len(credsFile') = Len(credsFile)
                 /\ \A i \in 1..Len(credsFile) :
                      IF credsFile[i].alias = a
                        THEN /\ credsFile'[i] = [credsFile[i] EXCEPT
                                    !.accessToken = newToken'[c],
                                    !.instanceUrl = credsFile'[i].instanceUrl]
                             /\ credsFile'[i].instanceUrl \in {credsFile[i].instanceUrl} \cup MovedInstanceUrls
                        ELSE credsFile'[i] = credsFile[i]
            ELSE credsFile' = credsFile]_vars

\* A refresh moved one of two records to a new access token and instance URL.
C7_Witness ==
  \E c \in Calls :
    /\ callPc[c] = "second" /\ Len(credsFile) = 2
    /\ HasKey(credsFile, org[c]._alias)
    /\ LET r == Get(credsFile, org[c]._alias)
       IN /\ r.accessToken = newToken[c]
          /\ r.instanceUrl \in MovedInstanceUrls
          /\ r.refreshToken = org[c].refreshToken

NoDuplicates(o) == \A i, j \in 1..Len(o) : o[i].alias = o[j].alias => i = j

C10_NoLostUpdate ==
  [][/\ \A k \in CbIds : LoginSaveStep(k) =>
          LET a == loginArgs[cbLogin[k]].alias
          IN /\ OthersKept(a)
             /\ HasKey(credsFile', a)
             /\ Get(credsFile', a).accessToken = cbTokens[k].access_token
     /\ \A c \in Calls : RefreshStep(c) =>
          LET a == org[c]._alias
          IN /\ OthersKept(a)
             /\ HasKey(credsFile', a) <=> HasKey(credsFile, a)
             /\ HasKey(credsFile, a) => Get(credsFile', a).accessToken = newToken'[c]
     /\ LogoutStep =>
          /\ OthersKept(logoutResponse'.alias)
          /\ ~HasKey(credsFile', logoutResponse'.alias)
     /\ (/\ \A k \in CbIds : ~LoginSaveStep(k)
         /\ \A c \in Calls : ~RefreshStep(c)
         /\ ~LogoutStep) => credsFile' = credsFile]_vars

\* A refresh of one alias and a login under the other alias overlapped, and
\* the file holds the refreshed token and the record of the login.
C10_Witness ==
  \E c \in Calls :
    /\ callPc[c] = "second" /\ Len(credsFile) = 2
    /\ newToken[c] = 3
    /\ Get(credsFile, org[c]._alias).accessToken = 3
    /\ \E b \in Aliases \ {org[c]._alias} :
         HasKey(credsFile, b) /\ Get(credsFile, b).authenticatedAt = 2

\* ---- the dispatcher ----------------------------------------------------------------
\* C11 as stated: a request whose name is no key of the handler table is
\* answered with the error-flagged text 'Unknown tool: <name>', and the step
\* sends no HTTP request, runs no command and leaves the credential file as
\* it was.
C11_UnknownToolRejected ==
  [][\A c \in Calls :
       callPc[c] = "idle" /\ callPc'[c] = "done" /\ callArgs'[c].tool \notin TOOL_HANDLERS =>
         /\ response'[c] = [isError |-> TRUE, text |-> UnknownToolText(callArgs'[c].tool)]
         /\ http'[c] = << >> /\ refreshes'[c] = 0 /\ sfExit'[c] = NoExit
         /\ credsFile' = credsFile]_vars

\* ---- the CLI variant ----------------------------------------------------------------
CliRunning(c) == cliPc[c] \in {"exec", "done"}

\* C12: runSf hands on the output of the sf command as it is: after a
\* successful exit stdout, or stderr when stdout is empty; after a failure
\* the stdout of the failure when it is not empty, else its stderr when that
\* is not empty, and the error 'sf command failed' only when both are empty;
\* the command is started once per call.  (The response of sf_apex_run is the
\* result of runSf unless removing its temporary file failed.)
C12_RunSfSurfacesOutput ==
  \A c \in CliCalls :
    /\ sfRuns[c] <= 1
    /\ cliPc[c] = "done" /\ cliResponse[c].text # "ENOENT" =>
         LET e == cliExit[c]
             r == cliResponse[c]
         IN /\ sfRuns[c] = 1
            /\ IF e.exit = "ok"
                 THEN r = [isError |-> FALSE, text |-> IF e.stdout # "" THEN e.stdout ELSE e.stderr]
                 ELSE IF e.stdout # "" THEN r = [isError |-> FALSE, text |-> e.stdout]
                 ELSE IF e.stderr # "" THEN r = [isError |-> FALSE, text |-> e.stderr]
                 ELSE r = [isError |-> TRUE, text |-> "sf_failed"]

\* A failed command that wrote to stderr only: its stderr is the response.
C12_Witness ==
  \E c \in CliCalls :
    /\ cliPc[c] = "done" /\ cliExit[c] = [exit |-> "failed", stdout |-> "", stderr |-> "err"]
    /\ cliResponse[c] = [isError |-> FALSE, text |-> "err"]

\* C16: a handler with an org argument passes '--target-org <org>' exactly
\* when the org argument or DEFAULT_ORG is not empty, with the org argument
\* when it is not empty and DEFAULT_ORG otherwise.
TargetOrgAt(a) == {i \in 1..Len(a) : a[i] = Word("--target-org")}

C16_TargetOrg ==
  \A c \in CliCalls :
    CliRunning(c) /\ cliReq[c].tool \in {"sf_org_display", "sf_apex_run"} =>
      LET a == argv[c]
          given == cliReq[c].org
      IN IF given = "" /\ defaultOrg = ""
           THEN TargetOrgAt(a) = {}
           ELSE /\ Cardinality(TargetOrgAt(a)) = 1
                /\ \A i \in TargetOrgAt(a) :
                     /\ i < Len(a)
                     /\ a[i + 1] = Word(IF given # "" THEN given ELSE defaultOrg)

\* The org argument was given although DEFAULT_ORG is set, and it was passed.
C16_Witness ==
  \E c \in CliCalls :
    /\ CliRunning(c) /\ cliReq[c].org = "dev" /\ defaultOrg = "prod"
    /\ Includes(argv[c], Word("dev")) /\ ~Includes(argv[c], Word("prod"))

\* C17: sf_run_command runs the pieces of the command string between its runs
\* of white space, followed by '--json' when none of the pieces is '--json'
\* and by nothing when one is; normalising the arguments again changes nothing.
RECURSIVE Collapse(_)
Collapse(cmd) ==
  IF cmd = << >> THEN << >>
  ELSE IF Head(cmd) \in Whitespace
    THEN IF Len(cmd) > 1 /\ cmd[2] \in Whitespace THEN Collapse(Tail(cmd))
         ELSE <<" ">> \o Collapse(Tail(cmd))
    ELSE <<Head(cmd)>> \o Collapse(Tail(cmd))

RECURSIVE Join(_)
Join(words) ==
  IF Len(words) = 0 THEN << >>
  ELSE IF Len(words) = 1 THEN words[1]
  ELSE words[1] \o <<" ">> \o Join(Tail(words))

C17_JsonFlagNormalised ==
  \A c \in CliCalls :
    CliRunning(c) /\ cliReq[c].tool = "sf_run_command" =>
      LET a == argv[c]
          cmd == cliReq[c].command
          front == SubSeq(a, 1, Len(a) - 1)
      IN /\ Len(a) >= 1
         /\ \A i \in 1..Len(a) : \A j \in 1..Len(a[i]) : a[i][j] \notin Whitespace
         /\ \/ Join(a) = Collapse(cmd) /\ Includes(a, JsonFlag)
            \/ /\ Join(front) = Collapse(cmd) /\ Len(front) >= 1
               /\ a[Len(a)] = JsonFlag /\ ~Includes(front, JsonFlag)
         /\ WithJson(a) = a

\* A command that names '--json' after another piece ran as it was written.
C17_Witness ==
  \E c \in CliCalls :
    /\ cliPc[c] = "exec" /\ cliReq[c].command = <<"x", " ", "--json">>
    /\ argv[c] = <<Word("x"), JsonFlag>>

\* C18: sf_apex_run with inline code and no file writes the code to a
\* temporary file and passes '-f <that file>'; when the command has ended the
\* file is gone, whether runSf returned or threw; with a file argument the
\* file is passed and no temporary file is written.
EndsWith(a, w1, w2) == Len(a) >= 2 /\ a[Len(a) - 1] = w1 /\ a[Len(a)] = w2

C18_TempFileRemoved ==
  [][\A c \in CliCalls :
       /\ cliPc[c] = "idle" /\ cliPc'[c] = "exec" /\ cliReq'[c].tool = "sf_apex_run" =>
            LET req == cliReq'[c]
            IN IF req.code # "" /\ req.file = ""
                 THEN /\ tmpFile'[c] \in TmpNames
                      /\ tmpDir'[tmpFile'[c]] = req.code
                      /\ EndsWith(argv'[c], Word("-f"), Word(tmpFile'[c]))
                 ELSE /\ tmpFile'[c] = NoTmp
                      /\ tmpDir' = tmpDir
                      /\ IF req.file # "" THEN EndsWith(argv'[c], Word("-f"), Word(req.file))
                         ELSE ~Includes(argv'[c], Word("-f"))
       /\ cliPc[c] = "exec" /\ cliPc'[c] = "done" =>
            IF tmpFile[c] # NoTmp THEN tmpDir'[tmpFile[c]] = NoFile ELSE tmpDir' = tmpDir]_vars

\* runSf threw for a call that had written a temporary file; the file is gone.
C18_Witness ==
  \E c \in CliCalls :
    /\ cliPc[c] = "done" /\ tmpFile[c] # NoTmp
    /\ cliResponse[c] = [isError |-> TRUE, text |-> "sf_failed"]
    /\ tmpDir[tmpFile[c]] = NoFile

\* ---- a refused token refresh ---------------------------------------------------------
RefreshFailStep(c) == callPc[c] = "refresh" /\ callPc'[c] = "done"

\* C13 as stated: when the token endpoint refuses the refresh, the tool call
\* ends with the error 'Session expired. Re-authenticate with sf_org_login.',
\* the request is not sent again and the credential file stays as it was.
C13_RefreshFailureIsError ==
  [][\A c \in Calls : RefreshFailStep(c) =>
       /\ response'[c] = [isError |-> TRUE, text |-> "session_expired"]
       /\ http'[c] = http[c] /\ Len(http[c]) = 1
       /\ credsFile' = credsFile]_vars

\* C13 as amended: the same, except that sf_org_display answers with the
\* stored details of the org and no error.
C13_RefreshFailureEndsCall ==
  [][\A c \in Calls : RefreshFailStep(c) =>
       /\ response'[c] = IF callArgs[c].tool = "sf_org_display"
                           THEN [isError |-> FALSE, text |-> "display"]
                           ELSE [isError |-> TRUE, text |-> "session_expired"]
       /\ http'[c] = http[c] /\ Len(http[c]) = 1
       /\ credsFile' = credsFile]_vars

\* A call ended with the session-expired error after one request, and the
\* record still holds the access token that was answered 401.
C13_Witness ==
  \E c \in Calls :
    /\ callPc[c] = "done" /\ response[c] = [isError |-> TRUE, text |-> "session_expired"]
    /\ Len(http[c]) = 1 /\ http[c][1].status = 401
    /\ HasKey(credsFile, org[c]._alias)
    /\ Get(credsFile, org[c]._alias).accessToken = http[c][1].token
    /\ Get(credsFile, org[c]._alias).refreshToken = org[c].refreshToken

\* A request to a path other than /OauthRedirect is answered 404.
NotFoundStep(l) == ~notFound[l] /\ notFound'[l]

\* C14: a callback request to a path other than /OauthRedirect is answered 404
\* and does not settle the login: the login stays pending, its listener stays
\* open, no request handling is started and the credential store is unchanged.
C14_NotFoundKeepsLoginPending ==
  [][\A l \in Logins : NotFoundStep(l) =>
        /\ promise[l] = "pending" /\ promise'[l] = "pending"
        /\ ~settled'[l]
        /\ httpServer[l] = "listening" /\ httpServer'[l] = "listening"
        /\ loginResponse'[l] = loginResponse[l]
        /\ timer'[l] = timer[l]
        /\ cbPc' = cbPc
        /\ credsFile' = credsFile]_vars

\* After a request to another path was answered 404, a valid callback completed
\* the same login: it is resolved and its record is stored.
C14_Witness ==
  /\ notFound["login1"]
  /\ promise["login1"] = "resolved"
  /\ HasKey(credsFile, loginArgs["login1"].alias)
  /\ loginResponse["login1"].alias = loginArgs["login1"].alias
  /\ ~loginResponse["login1"].isError
\* sf_org_list answers.
ListStep == listResponse = NoList /\ listResponse' # NoList

\* C15: sf_org_list returns exactly one entry per record of the store, with the
\* alias, username, instanceUrl, orgId and authenticatedAt of that record; it
\* returns the 'No orgs connected' message, not flagged as an error and not an
\* empty list, exactly when the store is empty; it never modifies the store.
C15_OrgListMatchesStore ==
  [][ListStep =>
       LET r == listResponse'
       IN /\ credsFile' = credsFile
          /\ ~r.isError
          /\ (r.json = "object" /\ r.message = NoOrgsMessage) <=> Len(credsFile) = 0
          /\ r.json = "array" <=> Len(credsFile) > 0
          /\ r.json = "array" =>
                /\ Len(r.list) = Len(credsFile)
                /\ \A a \in Keys(credsFile) :
                      /\ Cardinality({i \in 1..Len(r.list) : r.list[i].alias = a}) = 1
                      /\ \E i \in 1..Len(r.list) :
                            /\ r.list[i].alias = a
                            /\ r.list[i].username = Get(credsFile, a).username
                            /\ r.list[i].instanceUrl = Get(credsFile, a).instanceUrl
                            /\ r.list[i].orgId = Get(credsFile, a).orgId
                            /\ r.list[i].authenticatedAt = Get(credsFile, a).authenticatedAt]_vars

\* sf_org_list answered with two entries, one of a login whose identity lookup failed.
C15_Witness ==
  /\ listResponse.json = "array"
  /\ Len(listResponse.list) = 2
  /\ \E i \in 1..2 : listResponse.list[i].username = ""
  /\ \E i \in 1..2 : listResponse.list[i].username # ""
\* A handler that calls sfApi or sfRawApi starts for a named org alias.
NamedStart(c) == callPc[c] = "idle" /\ callArgs'[c].tool \in ApiTools /\ callArgs'[c].org # NoAlias

\* C19: a tool call that names an org alias sends its request with the access
\* token and to the instance URL of the record of that alias; when the alias
\* has no record the call fails and sends no request.
C19_NamedAliasOnly ==
  [][\A c \in Calls : NamedStart(c) =>
        LET a == callArgs'[c].org
        IN IF HasKey(credsFile, a)
             THEN /\ Len(http'[c]) = 1
                  /\ http'[c][1].token = Get(credsFile, a).accessToken
                  /\ org'[c].instanceUrl = Get(credsFile, a).instanceUrl
             ELSE /\ Len(http'[c]) = 0
                  /\ response'[c].isError]_vars

\* The token endpoint has answered the refresh of call c and the record under
\* the alias of the call is written.
RefreshWrite(c) == callPc[c] = "refresh" /\ callPc'[c] = "second" /\ credsFile' # credsFile

\* C20: the access token and the refresh token of one record come from the
\* same login session: a refresh writes its access token only into a record
\* that holds the refresh token the access token was obtained with.
C20_TokensOfOneSession ==
  [][\A c \in Calls : RefreshWrite(c) =>
        Get(credsFile', org[c]._alias).refreshToken = org[c].refreshToken]_vars
\* The requests of login l whose handler has sent the authorization code to
\* the token endpoint and has not finished.
Exchanging(l) == {k \in CbIds : cbLogin[k] = l}

\* C21: one oauthLogin invocation performs at most one token exchange and at
\* most one write to the credential store: no second request of a login gets
\* to the token exchange while one is being handled, and once the login is
\* resolved (its record is written) no request of it writes the store again.
C21_SingleExchangeAndWrite ==
  [][\A l \in Logins :
        /\ Cardinality(Exchanging(l)') <= 1
        /\ promise[l] = "resolved" => credsFile' = credsFile]_vars
\* oauthLogin is called for login l.
StartStep(l) == promise[l] = "none" /\ promise'[l] = "pending"

\* The 'error' handler of the listener of login l runs.
ErrorStep(l) == httpServer[l] = "errorPending" /\ httpServer'[l] = "failed"

\* The step leaves every login other than l as it was.
Undisturbed(l) ==
  \A m \in Logins \ {l} :
    /\ settled'[m] = settled[m]
    /\ httpServer'[m] = httpServer[m]
    /\ timer'[m] = timer[m]
    /\ promise'[m] = promise[m]
    /\ loginResponse'[m] = loginResponse[m]

\* C22: at most one login owns the callback listener at a time: a login
\* started while the listener of another login is open is rejected with the
\* 'Could not start login server' error, never handles a request and writes
\* nothing to the credential store, and neither its start nor its rejection
\* changes the settled flag, listener, timer, promise or response of the other.
C22_OneListenerOwner ==
  /\ [](Cardinality({l \in Logins : httpServer[l] = "listening"}) <= 1)
  /\ [](\A l \in Logins : httpServer[l] \in {"errorPending", "failed"} => \A k \in CbIds : cbLogin[k] # l)
  /\ [][\A l \in Logins :
         /\ StartStep(l) /\ (\E m \in Logins \ {l} : httpServer[m] = "listening") =>
               /\ httpServer'[l] = "errorPending"
               /\ credsFile' = credsFile
               /\ Undisturbed(l)
         /\ ErrorStep(l) =>
               /\ promise'[l] = "rejected"
               /\ loginResponse'[l] = LoginError("listen_error")
               /\ credsFile' = credsFile
               /\ Undisturbed(l)
         /\ httpServer[l] = "failed" /\ credsFile' # credsFile =>
               \E k \in CbIds : cbPc[k] = "identity" /\ cbLogin[k] # l]_vars

\* The second login was rejected because the first held the port, and the
\* first was then completed by its callback and stored its record.
C22_Witness ==
  /\ loginResponse["login2"] = LoginError("listen_error")
  /\ promise["login1"] = "resolved"
  /\ HasKey(credsFile, loginArgs["login1"].alias)
  /\ loginResponse["login1"].alias = loginArgs["login1"].alias
\* A record, a store and the org of a tool call with the secrets taken out.
RedactRecord(rec) == [rec EXCEPT !.accessToken = NoToken, !.refreshToken = NoToken]

Redact(orgs) == [i \in 1..Len(orgs) |-> RedactRecord(orgs[i])]

\* sf_org_login of login l answers with success.
LoginSuccessStep(l) == promise[l] = "pending" /\ promise'[l] = "resolved"

\* sf_org_display of call c answers with the org details.
DisplayStep(c) == displayed[c] = NoDisplay /\ displayed'[c] # NoDisplay

\* C23: the responses of sf_org_login, sf_org_list, sf_org_display and
\* sf_org_logout disclose no stored secret: each text is what the same handler
\* returns when the access and refresh tokens of every record are blanked, so
\* for sf_org_list and sf_org_logout two stores that differ only in the token
\* values of their records give the same text.
C23_NoSecretInResponses ==
  [][/\ \A l \in Logins : LoginSuccessStep(l) =>
           loginResponse'[l] = LoginSuccess(RedactRecord(Get(credsFile', loginArgs[l].alias)))
     /\ ListStep => listResponse' = OrgListText(OrgEntries(Redact(credsFile)))
     /\ LogoutStep => \E alias \in Aliases : logoutResponse' = LogoutText(Redact(credsFile), alias)
     /\ \A c \in Calls : DisplayStep(c) =>
           displayed'[c] = DisplayText(RedactRecord(org[c]), displayed'[c].latestApiVersion)]_vars

\* sf_org_list answered for a store whose record holds a refreshed access
\* token, after sf_org_display had answered for the same org.
C23_Witness ==
  /\ listResponse.json = "array"
  /\ \E i \in 1..Len(credsFile) :
        /\ credsFile[i].accessToken # NoToken
        /\ credsFile[i].refreshToken # NoToken
        /\ credsFile[i].accessToken # credsFile[i].authenticatedAt
====
